---- MODULE Spec2Model ----
(***************************************************************************)
(* Verification model of the stormwater calculators.                       *)
(*                                                                         *)
(* Part 1: streamlit_wildfire_discharge.py, the Monte Carlo simulation of  *)
(* peak discharge with wildfire effects (lines 38-73 of the script), its   *)
(* sensitivity sweep (lines 119-132) and its export (lines 144-149).       *)
(* Parts 2 and 3, further down: the composite gutter calculator and the    *)
(* grate inlet in a sag.                                                   *)
(*                                                                         *)
(* Units.  Runoff coefficients are integers in hundredths (0.25 is 25).    *)
(* The annual wildfire probability is kept as the slider value in tenths   *)
(* of a percent (1.5 % is 15, p = 1.0 is 1000).  A discharge is the        *)
(* integer C * rainfall_intensity * drainage_area_m2, that is the value of *)
(* line 58 in units of 1 / (100 * 3600000) m3/s.  A mean is the pair       *)
(* [num, den] of the sum and the count; den = 0 is numpy's nan (mean of an *)
(* empty slice).                                                           *)
(*                                                                         *)
(* Arrays keep the source's 0-based indices: a row is a function on        *)
(* 0 .. design_lifespan_years - 1, an array a function on                  *)
(* 0 .. num_simulations - 1 to rows.                                       *)
(***************************************************************************)
EXTENDS Integers, Sequences, FiniteSets, TLC

\* ------------------------------------------------------------- bounds

\* Largest design lifespan (slider: 10 .. 200 years), scaled down.
MaxYears == 5

\* Largest fire effect duration (slider: 1 .. 50 years), scaled down.
MaxDuration == 5

\* Seeds of the generator: 0 .. MaxSeed.
MaxSeed == 15

\* Number of trials (10000 in the script), scaled down.
num_simulations == 2

\* ------------------------------------------------- the script's inputs

\* Slider defaults of lines 24-27, in hundredths.
mean_C_baseline == 25

std_C_baseline == 5

mean_C_post_wildfire == 40

std_C_post_wildfire == 10

\* Line 29 (slider 10 .. 100 mm/hr) and line 30 (slider 0.5 .. 1000 ha).
rainfall_intensity == 10

drainage_area == 1

\* Line 45: hectares to square metres.
drainage_area_m2 == drainage_area * 10000

\* The distribution parameters of a run: the sliders' defaults, and the
\* constant distributions 1.0 and 9.0 (std 0) of the concrete scenario, which
\* the sliders cannot produce.
SliderDist == [mb |-> mean_C_baseline, sb |-> std_C_baseline, mp |-> mean_C_post_wildfire, sp |-> std_C_post_wildfire]

ConstantDist == [mb |-> 100, sb |-> 0, mp |-> 900, sp |-> 0]

\* Values of the widgets: line 35 (lifespan), line 36 (duration, at least 1),
\* line 32 (probability 0.0 % .. 10.0 %, here in tenths of a percent).
WidgetYears == 1 .. MaxYears

WidgetDurations == 1 .. MaxDuration

WidgetProbs == {0, 50, 100}

\* Values the simulation block can be handed when it is run on a
\* configuration that no widget has range-checked.
CoreYears == -1 .. MaxYears

CoreDurations == 0 .. MaxDuration

CoreProbs == {-10, 0, 100, 300, 500, 700, 1000, 1500}

Seeds == 0 .. MaxSeed

\* --------------------------------------------- numpy's global generator

\* np.random is one global generator: every draw advances its state.  It is
\* modelled as a full-period linear congruential generator whose output is
\* the high bits of the state.
RngModulus == 1024

RngMultiplier == 53

RngIncrement == 7

RngOutputs == 64

RngNext(x) == (RngMultiplier * x + RngIncrement) % RngModulus

RECURSIVE RngAt(_, _)
RngAt(x, k) == IF k <= 0 THEN x ELSE RngAt(RngNext(x), k - 1)

RngOut(x) == x \div (RngModulus \div RngOutputs)

\* The state of a generator seeded with s.
SeedGenerator(s) == RngNext(s)

\* One standard normal deviate, in whole standard deviations.
StdNormal(x) ==
    LET u == RngOut(x)
    IN  IF u < RngOutputs \div 4 THEN -1
        ELSE IF u >= 3 * (RngOutputs \div 4) THEN 1
        ELSE 0

\* np.random.normal(mean, std, (rows, cols)) from generator state x: the
\* values are drawn in row-major order, one generator step each.
NormalArray(mean, std, x, rows, cols) ==
    [s \in 0 .. rows - 1 |->
        [y \in 0 .. cols - 1 |-> mean + std * StdNormal(RngAt(x, s * cols + y + 1))]]

\* One Bernoulli trial of np.random.binomial(1, p): 1 iff the uniform
\* deviate u / RngOutputs is below p = tenths / 1000.
Bernoulli(tenths, x) == IF RngOut(x) * 1000 < tenths * RngOutputs THEN 1 ELSE 0

\* np.random.binomial(1, p, (rows, cols)) from generator state x.
BinomialArray(tenths, x, rows, cols) ==
    [s \in 0 .. rows - 1 |->
        [y \in 0 .. cols - 1 |-> Bernoulli(tenths, RngAt(x, s * cols + y + 1))]]

\* ------------------------------------------------------------- state

VARIABLES
    design_lifespan_years,      \* line 35
    fire_effect_duration,       \* line 36
    prob_wildfire_percent,      \* line 32, in tenths of a percent
    dist,                       \* lines 24-27
    seed,                       \* the seed of this run's generator
    rng,                        \* the generator's state
    C_baseline_samples,         \* line 41
    C_post_wildfire_samples,    \* line 42
    wildfire_occurrences,       \* line 49
    Q_samples,                  \* line 50
    C_values,                   \* line 53
    sim,                        \* line 52
    year,                       \* line 54
    Q_avg_lifespan,             \* line 61
    Q_avg_baseline,             \* line 62
    num_wildfires,              \* lines 73, 147: np.sum(wildfire_occurrences, axis=1)
    pc,                         \* the script's position
    error,                      \* the exception that ended the run, or "none"
    drawn,                      \* history: the sampling calls that returned
    last_onset,                 \* history: per year, the onset year that last wrote it, or -1
    prev,                       \* history: <<>> or <<the previous run's record>>
    avg_num_wildfires,          \* line 73
    mean_discharge_vs_duration, \* line 120
    export_df,                  \* line 144
    csv_data,                   \* line 149
    C_reordered,                \* lines 53-57 once more: each trial's C_values, its onsets taken in any order
    applied,                    \* the years whose onset has been taken so far
    out_of_order,               \* a year was taken after a later one
    reapplied,                  \* a year was taken again
    \* gutterflow_streamlit_app_v3.py
    W,                          \* line 81, in cm
    Sw,                         \* line 82, in thousandths
    Nw,                         \* line 83, in thousandths
    Sx,                         \* line 84, in thousandths
    Nx,                         \* line 85, in thousandths
    Sl,                         \* line 86, in thousandths
    Q_max,                      \* line 87, in discharge units
    Q_input,                    \* line 88, in discharge units
    T_values,                   \* line 115, in cm
    Q_values,                   \* line 116
    T_filtered,                 \* line 117
    Q_filtered,                 \* line 118
    T_for_Q_input,              \* lines 122, 125: <<>> is None, <<t>> the float t
    depth_for_Q_input,          \* lines 123, 126: <<>> is None, <<d>> the float d
    gutter_shown,               \* lines 141-145: the messages written
    gutter_pc,                  \* the gutter script's position
    T_arg,                      \* a call of compute_composite_flow: its argument T
    flow_call,                  \* a call of compute_composite_flow: its locals and its value
    \* hec22_inlet_calculator.py, the sag tab
    g,                          \* lines 309, 313, in hundredths
    Sw_sag,                     \* line 316, in thousandths
    Q_sag,                      \* line 317, in tenths
    d_curb,                     \* line 318, in hundredths
    grate_width_sag,            \* line 335, in hundredths
    grate_length_sag,           \* line 336, in hundredths
    opening_ratio,              \* line 349, in hundredths
    clogging_factor_sag,        \* line 356, in percent
    clear_area,                 \* line 350
    effective_perimeter,        \* line 359
    effective_area,             \* line 360
    d_avg,                      \* line 369
    Qi_weir,                    \* line 378
    Qi_orifice,                 \* line 381
    flow_regime,                \* lines 385, 388
    Qi_sag,                     \* lines 386, 389
    sag_shown,                  \* lines 406-417: the messages of the adequacy check
    sag_pc,                     \* the sag tab's position
    sag_error,                  \* the exception that ended the sag tab, or "none"
    \* hec22_inlet_calculator.py, the on-grade tab
    unit_system,                \* line 32
    n_grade,                    \* line 49: n
    Sx_grade,                   \* line 50: Sx
    SL,                         \* line 51
    T_grade,                    \* line 52: T
    grate_type,                 \* line 66
    grate_width,                \* line 84
    grate_length,               \* line 85
    clogging_factor,            \* line 127, as a fraction
    Q_grade,                    \* line 55: Q
    V,                          \* line 58
    Vo,                         \* lines 94-97
    Eo,                         \* line 133
    Rf,                         \* lines 136-139
    Rs_grade,                   \* line 143: Rs
    E_grade,                    \* line 146: E
    Qi,                         \* line 149
    Qb,                         \* line 152
    Qi_clogged,                 \* lines 156, 158
    Qb_clogged,                 \* lines 157, 159
    grade_pc                    \* the on-grade tab's position

cfg == <<design_lifespan_years, fire_effect_duration, prob_wildfire_percent, dist>>

arrays == <<C_baseline_samples, C_post_wildfire_samples, wildfire_occurrences>>

outputs == <<Q_avg_lifespan, Q_avg_baseline, num_wildfires>>

\* What the script assigns after the summary of line 73.
report == <<mean_discharge_vs_duration, export_df, csv_data>>

\* The year loop of lines 54-57 run once more, in any order of the years.
reorder == <<C_reordered, applied, out_of_order, reapplied>>

\* The gutter calculator's state.
gutter_inputs == <<W, Sw, Nw, Sx, Nx, Sl, Q_max, Q_input>>

gutter_vars == <<gutter_inputs, T_values, Q_values, T_filtered, Q_filtered, T_for_Q_input, depth_for_Q_input, gutter_shown, gutter_pc, T_arg, flow_call>>

\* The state of the inlet calculator's sag tab.
sag_inputs == <<g, Sw_sag, Q_sag, d_curb, grate_width_sag, grate_length_sag, opening_ratio, clogging_factor_sag>>

inlet_vars == <<sag_inputs, clear_area, effective_perimeter, effective_area, d_avg, Qi_weir, Qi_orifice, flow_regime, Qi_sag, sag_shown, sag_pc, sag_error>>

\* The on-grade tab's state.
grade_inputs == <<unit_system, n_grade, Sx_grade, SL, T_grade, grate_type, grate_width, grate_length, clogging_factor>>

grade_vars == <<grade_inputs, Q_grade, V, Vo, Eo, Rf, Rs_grade, E_grade, Qi, Qb, Qi_clogged, Qb_clogged, grade_pc>>

\* The state of the other calculators.
elsewhere == <<gutter_vars, inlet_vars, grade_vars>>

\* The simulator's state.
wildfire_vars == <<design_lifespan_years, fire_effect_duration, prob_wildfire_percent, dist, seed, rng, C_baseline_samples, C_post_wildfire_samples, wildfire_occurrences, Q_samples, C_values, sim, year, Q_avg_lifespan, Q_avg_baseline, num_wildfires, pc, error, drawn, last_onset, prev, avg_num_wildfires, mean_discharge_vs_duration, export_df, csv_data, C_reordered, applied, out_of_order, reapplied>>

vars == <<design_lifespan_years, fire_effect_duration, prob_wildfire_percent, dist, seed, rng, C_baseline_samples, C_post_wildfire_samples, wildfire_occurrences, Q_samples, C_values, sim, year, Q_avg_lifespan, Q_avg_baseline, num_wildfires, pc, error, drawn, last_onset, prev, avg_num_wildfires, mean_discharge_vs_duration, export_df, csv_data, C_reordered, applied, out_of_order, reapplied, W, Sw, Nw, Sx, Nx, Sl, Q_max, Q_input, T_values, Q_values, T_filtered, Q_filtered, T_for_Q_input, depth_for_Q_input, gutter_shown, gutter_pc, T_arg, flow_call, g, Sw_sag, Q_sag, d_curb, grate_width_sag, grate_length_sag, opening_ratio, clogging_factor_sag, clear_area, effective_perimeter, effective_area, d_avg, Qi_weir, Qi_orifice, flow_regime, Qi_sag, sag_shown, sag_pc, sag_error, unit_system, n_grade, Sx_grade, SL, T_grade, grate_type, grate_width, grate_length, clogging_factor, Q_grade, V, Vo, Eo, Rf, Rs_grade, E_grade, Qi, Qb, Qi_clogged, Qb_clogged, grade_pc>>

Years == 0 .. design_lifespan_years - 1

Sims == 0 .. num_simulations - 1

\* --------------------------------------------------- pure helpers

RECURSIVE SumTo(_, _)
\* f[0] + ... + f[n - 1]
SumTo(f, n) == IF n <= 0 THEN 0 ELSE SumTo(f, n - 1) + f[n - 1]

\* np.mean of a row of n values; den = 0 stands for nan.
Mean(f, n) == [num |-> SumTo(f, n), den |-> IF n > 0 THEN n ELSE 0]

IsNaN(m) == m.den = 0

\* Lines 58 and 60: C * rainfall_intensity_m_s * drainage_area_m2, elementwise.
Discharge(C) == [y \in DOMAIN C |-> C[y] * rainfall_intensity * drainage_area_m2]

\* Line 53: np.copy gives C_values a buffer of its own.
NpCopy(row) == row

\* Mutant: C_values is created once, before the trial loop, and carried from
\* trial to trial.
InitialC_carried(Cprev, s) == IF Cprev = <<>> THEN NpCopy(C_baseline_samples[s]) ELSE Cprev

\* Line 53: the value C_values takes at the start of trial s; the previous
\* trial's C_values is dropped.
InitialC(Cprev, s) == NpCopy(C_baseline_samples[s])

\* Mutant: np.copy is dropped, so C_values is a view of the baseline row.
WriteThrough_view(base, s, newC) == [base EXCEPT ![s] = newC]

\* Line 53: C_values being a copy, a write to it does not reach the row of
\* C_baseline_samples it was copied from.
WriteThrough(base, s, newC) == base

\* Mutant: the test is inverted.
OnsetFired_inverted(occ) == occ = 0

\* Line 55: the onset test.
OnsetFired(occ) == occ = 1

\* Mutant: the window runs one year longer.
EndEffectYear_one_more(y, duration, n) == IF y + duration + 1 < n THEN y + duration + 1 ELSE n

\* Mutant: an onset affects at least its own year.
EndEffectYear_at_least_one(y, duration, n) ==
    IF duration < 1 THEN (IF y + 1 < n THEN y + 1 ELSE n)
    ELSE IF y + duration < n THEN y + duration ELSE n

\* Line 56: end_effect_year.
EndEffectYear_drop_truncated(y, duration, n) == IF y + duration <= n THEN y + duration ELSE y

EndEffectYear(y, duration, n) == IF y + duration < n THEN y + duration ELSE n

\* Line 57: the indices the slice y:end selects in an array on dom.
SliceIndices(dom, y, end) == {i \in dom : y <= i /\ i < end}

\* Mutant: the slice starts after the onset year.
SliceAssign_after_onset(C, post, y, end) ==
    [i \in DOMAIN C |-> IF i \in SliceIndices(DOMAIN C, y + 1, end) THEN post[i] ELSE C[i]]

\* Line 57: C[y:end] = post[y:end].
SliceAssign(C, post, y, end) ==
    [i \in DOMAIN C |-> IF i \in SliceIndices(DOMAIN C, y, end) THEN post[i] ELSE C[i]]

\* Mutant: the onset year's override value is broadcast over the window
\* (C[y:end] = post[y]).
OverrideYear_broadcast(C, s, y, duration) ==
    IF OnsetFired(wildfire_occurrences[s][y])
    THEN [i \in DOMAIN C |->
            IF i \in SliceIndices(DOMAIN C, y, EndEffectYear(y, duration, design_lifespan_years))
            THEN C_post_wildfire_samples[s][y] ELSE C[i]]
    ELSE C

\* Lines 55-57: one iteration of the year loop of trial s on C.
OverrideYear(C, s, y, duration) ==
    IF OnsetFired(wildfire_occurrences[s][y])
    THEN SliceAssign(C, C_post_wildfire_samples[s], y, EndEffectYear(y, duration, design_lifespan_years))
    ELSE C

RECURSIVE ScanYears(_, _, _, _)
\* Lines 54-57: the year loop of trial s from year y on.
ScanYears(C, s, y, duration) ==
    IF y >= design_lifespan_years THEN C
    ELSE ScanYears(OverrideYear(C, s, y, duration), s, y + 1, duration)

\* Lines 53-58: the body of the trial loop, on the pair of the objects it
\* assigns (Q_samples and C_values).
TrialBody(st, s) ==
    LET C == ScanYears(InitialC(st.C, s), s, 0, fire_effect_duration)
    IN  [Q |-> [st.Q EXCEPT ![s] = Discharge(C)], C |-> C]

\* Mutant: the onsets come from a second generator that the run's seed does
\* not set, so that its state differs from run to run.
OnsetDraw_second_source(x) == BinomialArray(prob_wildfire_percent, x + Len(prev), num_simulations, design_lifespan_years)

\* Line 49: the onset indicators, drawn from the global generator at state x.
OnsetDraw(x) == BinomialArray(prob_wildfire_percent, x, num_simulations, design_lifespan_years)

RECURSIVE RunTrialsFrom(_, _, _)
\* The trial loop of lines 52-58 taking the trials in the order given, from
\* the order's i-th trial on.
RunTrialsFrom(st, order, i) ==
    IF i > Len(order) THEN st
    ELSE RunTrialsFrom(TrialBody(st, order[i]), order, i + 1)

\* Line 50: np.zeros.
Zeros == [s \in Sims |-> [y \in Years |-> 0]]

\* Line 61.
AvgLifespan(Q) == [s \in Sims |-> Mean(Q[s], design_lifespan_years)]

\* Lines 60 and 62.
AvgBaseline(base) == [s \in Sims |-> Mean(Discharge(base[s]), design_lifespan_years)]

\* Mutant: an onset that falls in the effect window of the onset before it is
\* not counted.
NumWildfires_new_episodes(occ) ==
    [s \in Sims |->
        Cardinality({y \in Years :
            /\ occ[s][y] = 1
            /\ ~ \E z \in Years : z < y /\ occ[s][z] = 1 /\ y < z + fire_effect_duration})]

\* Lines 73 and 147: np.sum(wildfire_occurrences, axis=1).
NumWildfires(occ) == [s \in Sims |-> SumTo(occ[s], design_lifespan_years)]

\* np.mean of the per-trial means (lines 80, 84, 95, 96): nan if any is nan.
CrossMean(avg) ==
    IF \E s \in Sims : IsNaN(avg[s]) THEN [num |-> 0, den |-> 0]
    ELSE [num |-> SumTo([s \in Sims |-> avg[s].num], num_simulations), den |-> design_lifespan_years * num_simulations]

\* Line 73: np.mean(np.sum(wildfire_occurrences, axis=1)).
AvgNumWildfires(occ) == Mean(NumWildfires(occ), num_simulations)

\* ------------------------------------------- the sensitivity sweep

\* Line 119: list(range(1, 31, 2)).
SweepStart == 1

SweepStop == 31

SweepStep == 2

durations == [i \in 1 .. (SweepStop - SweepStart + SweepStep - 1) \div SweepStep |-> SweepStart + (i - 1) * SweepStep]

\* Line 125: C_vals being a copy, a write to it does not reach the baseline
\* row it was copied from.
SweepWriteThrough(base, s, newC) == base

\* Mutant: the sweep's window runs one year longer than the duration.
SweepEndEffect_one_more(y, duration, n) == IF y + duration + 1 < n THEN y + duration + 1 ELSE n

\* Line 128: end_effect.
SweepEndEffect(y, duration, n) == IF y + duration < n THEN y + duration ELSE n

RECURSIVE SweepYears(_, _, _, _)
\* Lines 126-129: the sweep's year loop of trial s from year y on.
SweepYears(C, s, y, duration) ==
    IF y >= design_lifespan_years THEN C
    ELSE IF wildfire_occurrences[s][y] = 1
    THEN SweepYears(SliceAssign(C, C_post_wildfire_samples[s], y, SweepEndEffect(y, duration, design_lifespan_years)), s, y + 1, duration)
    ELSE SweepYears(C, s, y + 1, duration)

RECURSIVE SweepTrials(_, _, _)
\* Lines 124-130: the sweep's trial loop from trial s on, on the pair of the
\* baseline array and temp_Q_samples.
SweepTrials(st, s, duration) ==
    IF s >= num_simulations THEN st
    ELSE LET C_vals == SweepYears(NpCopy(st.base[s]), s, 0, duration)
         IN  SweepTrials([base |-> SweepWriteThrough(st.base, s, C_vals),
                          temp |-> [st.temp EXCEPT ![s] = Discharge(C_vals)]], s + 1, duration)

\* Lines 131-132: np.mean(np.mean(temp_Q_samples, axis=1)).
SweepMean(temp) == CrossMean([s \in Sims |-> Mean(temp[s], design_lifespan_years)])

\* ------------------------------------------------------- the export

\* Lines 144-148: the frame's columns, in the order of the dict.
ExportColumns == <<"Avg Discharge With Wildfires", "Avg Discharge Baseline", "Num Wildfires">>

\* Lines 144-148: pd.DataFrame of a dict of three arrays of num_simulations
\* entries; the index is the RangeIndex 0 .. num_simulations - 1.
DataFrame(with, base, count) ==
    [columns |-> ExportColumns,
     index |-> [i \in 1 .. num_simulations |-> i - 1],
     data |-> [i \in 1 .. num_simulations |-> <<with[i - 1], base[i - 1], count[i - 1]>>]]

\* Line 149: to_csv; the index is a first, unnamed column iff it is asked for.
ToCsv(df, index) ==
    [header |-> IF index THEN <<"">> \o df.columns ELSE df.columns,
     rows |-> [i \in 1 .. Len(df.data) |-> IF index THEN <<df.index[i]>> \o df.data[i] ELSE df.data[i]]]

\* ------------------------------------------- the calculators at rest

\* The gutter calculator is not running.
GutterIdle ==
    /\ W = 0
    /\ Sw = 0
    /\ Nw = 0
    /\ Sx = 0
    /\ Nx = 0
    /\ Sl = 0
    /\ Q_max = 0
    /\ Q_input = 0
    /\ T_values = <<>>
    /\ Q_values = <<>>
    /\ T_filtered = <<>>
    /\ Q_filtered = <<>>
    /\ T_for_Q_input = <<>>
    /\ depth_for_Q_input = <<>>
    /\ gutter_shown = <<>>
    /\ gutter_pc = "off"
    /\ T_arg = 0
    /\ flow_call = <<>>

\* The sag tab of the inlet calculator is not running.
InletIdle ==
    /\ g = 0
    /\ Sw_sag = 0
    /\ Q_sag = 0
    /\ d_curb = 0
    /\ grate_width_sag = 0
    /\ grate_length_sag = 0
    /\ opening_ratio = 0
    /\ clogging_factor_sag = 0
    /\ clear_area = 0
    /\ effective_perimeter = 0
    /\ effective_area = 0
    /\ d_avg = 0
    /\ Qi_weir = 0
    /\ Qi_orifice = 0
    /\ flow_regime = ""
    /\ Qi_sag = 0
    /\ sag_shown = <<>>
    /\ sag_pc = "off"
    /\ sag_error = "none"

\* The on-grade tab is not running.
GradeIdle ==
    /\ unit_system = ""
    /\ n_grade = 0
    /\ Sx_grade = 0
    /\ SL = 0
    /\ T_grade = 0
    /\ grate_type = ""
    /\ grate_width = 0
    /\ grate_length = 0
    /\ clogging_factor = 0
    /\ Q_grade = 0
    /\ V = 0
    /\ Vo = 0
    /\ Eo = 0
    /\ Rf = 0
    /\ Rs_grade = 0
    /\ E_grade = 0
    /\ Qi = 0
    /\ Qb = 0
    /\ Qi_clogged = 0
    /\ Qb_clogged = 0
    /\ grade_pc = "off"

\* The simulator is not running.
WildfireIdle ==
    /\ design_lifespan_years = 0
    /\ fire_effect_duration = 0
    /\ prob_wildfire_percent = 0
    /\ dist = SliderDist
    /\ seed = 0
    /\ rng = 0
    /\ C_baseline_samples = <<>>
    /\ C_post_wildfire_samples = <<>>
    /\ wildfire_occurrences = <<>>
    /\ Q_samples = <<>>
    /\ C_values = <<>>
    /\ sim = 0
    /\ year = 0
    /\ Q_avg_lifespan = <<>>
    /\ Q_avg_baseline = <<>>
    /\ num_wildfires = <<>>
    /\ pc = "off"
    /\ error = "none"
    /\ drawn = {}
    /\ last_onset = <<>>
    /\ prev = <<>>
    /\ avg_num_wildfires = <<>>
    /\ mean_discharge_vs_duration = <<>>
    /\ export_df = <<>>
    /\ csv_data = <<>>
    /\ C_reordered = <<>>
    /\ applied = {}
    /\ out_of_order = FALSE
    /\ reapplied = FALSE

\* -------------------------------------------------------------- Init

\* The state at the start of a run of the script with generator seed s.
Start(s) ==
    /\ seed = s
    /\ rng = SeedGenerator(s)
    /\ C_baseline_samples = <<>>
    /\ C_post_wildfire_samples = <<>>
    /\ wildfire_occurrences = <<>>
    /\ Q_samples = <<>>
    /\ C_values = <<>>
    /\ sim = 0
    /\ year = 0
    /\ Q_avg_lifespan = <<>>
    /\ Q_avg_baseline = <<>>
    /\ num_wildfires = <<>>
    /\ pc = "draw_baseline"
    /\ error = "none"
    /\ drawn = {}
    /\ last_onset = <<>>
    /\ avg_num_wildfires = <<>>
    /\ mean_discharge_vs_duration = <<>>
    /\ export_df = <<>>
    /\ csv_data = <<>>
    /\ C_reordered = <<>>
    /\ applied = {}
    /\ out_of_order = FALSE
    /\ reapplied = FALSE

\* The simulation block run on any configuration.
InitCore ==
    /\ design_lifespan_years \in CoreYears
    /\ fire_effect_duration \in CoreDurations
    /\ prob_wildfire_percent \in CoreProbs
    /\ dist \in {SliderDist, ConstantDist}
    /\ \E s \in Seeds : Start(s)
    /\ prev = <<>>
    /\ GutterIdle
    /\ InletIdle
    /\ GradeIdle

\* The script as the widgets start it.
Init ==
    /\ design_lifespan_years \in WidgetYears
    /\ fire_effect_duration \in WidgetDurations
    /\ prob_wildfire_percent \in WidgetProbs
    /\ dist = SliderDist
    /\ \E s \in Seeds : Start(s)
    /\ prev = <<>>
    /\ GutterIdle
    /\ InletIdle
    /\ GradeIdle

\* ----------------------------------------------------------- actions

\* Line 41.  A negative dimension makes np.random.normal raise ValueError.
DrawBaseline ==
    /\ pc = "draw_baseline"
    /\ IF design_lifespan_years < 0
       THEN /\ pc' = "failed"
            /\ error' = "ValueError"
            /\ UNCHANGED <<rng, C_baseline_samples, drawn>>
       ELSE /\ C_baseline_samples' = NormalArray(dist.mb, dist.sb, rng, num_simulations, design_lifespan_years)
            /\ rng' = RngAt(rng, num_simulations * design_lifespan_years)
            /\ drawn' = drawn \cup {"baseline"}
            /\ pc' = "draw_post"
            /\ UNCHANGED error
    /\ UNCHANGED <<cfg, seed, C_post_wildfire_samples, wildfire_occurrences, Q_samples, C_values, sim, year, outputs, last_onset, prev>>
    /\ UNCHANGED <<avg_num_wildfires, report, reorder, elsewhere>>

\* Line 42.
DrawPostWildfire ==
    /\ pc = "draw_post"
    /\ C_post_wildfire_samples' = NormalArray(dist.mp, dist.sp, rng, num_simulations, design_lifespan_years)
    /\ rng' = RngAt(rng, num_simulations * design_lifespan_years)
    /\ drawn' = drawn \cup {"post"}
    /\ pc' = "draw_occ"
    /\ UNCHANGED <<cfg, seed, C_baseline_samples, wildfire_occurrences, Q_samples, C_values, sim, year, outputs, error, last_onset, prev>>
    /\ UNCHANGED <<avg_num_wildfires, report, reorder, elsewhere>>

\* Lines 49-50.  np.random.binomial raises ValueError for p < 0 or p > 1.
DrawOccurrences ==
    /\ pc = "draw_occ"
    /\ IF prob_wildfire_percent < 0 \/ prob_wildfire_percent > 1000
       THEN /\ pc' = "failed"
            /\ error' = "ValueError"
            /\ UNCHANGED <<rng, wildfire_occurrences, Q_samples, drawn>>
       ELSE /\ wildfire_occurrences' = OnsetDraw(rng)
            /\ rng' = RngAt(rng, num_simulations * design_lifespan_years)
            /\ drawn' = drawn \cup {"occ"}
            /\ Q_samples' = Zeros
            /\ pc' = "sim_loop"
            /\ UNCHANGED error
    /\ UNCHANGED <<cfg, seed, C_baseline_samples, C_post_wildfire_samples, C_values, sim, year, outputs, last_onset, prev>>
    /\ UNCHANGED <<avg_num_wildfires, report, reorder, elsewhere>>

\* Lines 52-53: the trial loop takes the next trial and copies its baseline row.
BeginTrial ==
    /\ pc = "sim_loop"
    /\ sim < num_simulations
    /\ C_values' = InitialC(C_values, sim)
    /\ year' = 0
    /\ last_onset' = [y \in Years |-> -1]
    /\ pc' = "year_loop"
    /\ UNCHANGED <<cfg, seed, rng, arrays, Q_samples, sim, outputs, error, drawn, prev>>
    /\ UNCHANGED <<avg_num_wildfires, report, reorder, elsewhere>>

\* Lines 54-57: one iteration of the year loop.
YearStep ==
    /\ pc = "year_loop"
    /\ year < design_lifespan_years
    /\ LET newC == OverrideYear(C_values, sim, year, fire_effect_duration)
       IN  /\ C_values' = newC
           /\ C_baseline_samples' = WriteThrough(C_baseline_samples, sim, newC)
    /\ last_onset' =
         IF OnsetFired(wildfire_occurrences[sim][year])
         THEN [y \in Years |->
                 IF y \in SliceIndices(Years, year, EndEffectYear(year, fire_effect_duration, design_lifespan_years))
                 THEN year ELSE last_onset[y]]
         ELSE last_onset
    /\ year' = year + 1
    /\ UNCHANGED <<cfg, seed, rng, C_post_wildfire_samples, wildfire_occurrences, Q_samples, sim, outputs, pc, error, drawn, prev>>
    /\ UNCHANGED <<avg_num_wildfires, report, reorder, elsewhere>>

\* Line 58, at the end of the year loop.
StoreTrial ==
    /\ pc = "year_loop"
    /\ year >= design_lifespan_years
    /\ Q_samples' = [Q_samples EXCEPT ![sim] = Discharge(C_values)]
    /\ sim' = sim + 1
    /\ pc' = "sim_loop"
    /\ UNCHANGED <<cfg, seed, rng, arrays, C_values, year, outputs, error, drawn, last_onset, prev>>
    /\ UNCHANGED <<avg_num_wildfires, report, reorder, elsewhere>>

\* Lines 60-62 and 73, after the trial loop.
Summarize ==
    /\ pc = "sim_loop"
    /\ sim >= num_simulations
    /\ Q_avg_lifespan' = AvgLifespan(Q_samples)
    /\ Q_avg_baseline' = AvgBaseline(C_baseline_samples)
    /\ num_wildfires' = NumWildfires(wildfire_occurrences)
    /\ avg_num_wildfires' = AvgNumWildfires(wildfire_occurrences)
    /\ pc' = "done"
    /\ UNCHANGED <<cfg, seed, rng, arrays, Q_samples, C_values, sim, year, error, drawn, last_onset>>
    /\ UNCHANGED <<prev, report, reorder, elsewhere>>

\* The record a finished run leaves.
RunRecord == [cfg |-> cfg, seed |-> seed, pc |-> pc, outputs |-> outputs]

\* The script is run again, in a new process whose generator is seeded
\* with s, on the same configuration.
Restart ==
    /\ pc \in {"done", "failed"}
    /\ prev' = <<RunRecord>>
    /\ \E s \in Seeds :
        /\ seed' = s
        /\ rng' = SeedGenerator(s)
    /\ C_baseline_samples' = <<>>
    /\ C_post_wildfire_samples' = <<>>
    /\ wildfire_occurrences' = <<>>
    /\ Q_samples' = <<>>
    /\ C_values' = <<>>
    /\ sim' = 0
    /\ year' = 0
    /\ Q_avg_lifespan' = <<>>
    /\ Q_avg_baseline' = <<>>
    /\ num_wildfires' = <<>>
    /\ pc' = "draw_baseline"
    /\ error' = "none"
    /\ drawn' = {}
    /\ last_onset' = <<>>
    /\ avg_num_wildfires' = <<>>
    /\ mean_discharge_vs_duration' = <<>>
    /\ export_df' = <<>>
    /\ csv_data' = <<>>
    /\ C_reordered' = <<>>
    /\ applied' = {}
    /\ out_of_order' = FALSE
    /\ reapplied' = FALSE
    /\ UNCHANGED <<cfg, elsewhere>>

\* Lines 122-132: one iteration of the sweep's loop over durations.
SweepDuration ==
    /\ pc = "done"
    /\ Len(mean_discharge_vs_duration) < Len(durations)
    /\ LET duration == durations[Len(mean_discharge_vs_duration) + 1]
           st == SweepTrials([base |-> C_baseline_samples, temp |-> Zeros], 0, duration)
       IN  /\ mean_discharge_vs_duration' = Append(mean_discharge_vs_duration, SweepMean(st.temp))
           /\ C_baseline_samples' = st.base
    /\ UNCHANGED <<cfg, seed, rng, C_post_wildfire_samples, wildfire_occurrences, Q_samples, C_values, sim, year, outputs, pc, error, drawn, last_onset, prev>>
    /\ UNCHANGED <<avg_num_wildfires, export_df, csv_data, reorder, elsewhere>>

\* Lines 144-149, after the sweep.
ExportResults ==
    /\ pc = "done"
    /\ Len(mean_discharge_vs_duration) = Len(durations)
    /\ LET df == DataFrame(Q_avg_lifespan, Q_avg_baseline, NumWildfires(wildfire_occurrences))
       IN  /\ export_df' = df
           /\ csv_data' = ToCsv(df, FALSE)
    /\ pc' = "exported"
    /\ UNCHANGED <<cfg, seed, rng, arrays, Q_samples, C_values, sim, year, outputs, error, drawn, last_onset, prev>>
    /\ UNCHANGED <<avg_num_wildfires, mean_discharge_vs_duration, reorder, elsewhere>>

\* Lines 53-57 once more, after the run: the body of the year loop is applied
\* to every trial's copy of its baseline row for a year y that is chosen
\* freely, so that the years are taken in any order and any number of times.
ApplyOnset ==
    /\ pc = "done"
    /\ \E y \in Years :
        LET C == IF applied = {} THEN [s \in Sims |-> NpCopy(C_baseline_samples[s])] ELSE C_reordered
        IN  /\ C_reordered' = [s \in Sims |-> OverrideYear(C[s], s, y, fire_effect_duration)]
            /\ applied' = applied \cup {y}
            /\ out_of_order' = (out_of_order \/ \E z \in applied : z > y)
            /\ reapplied' = (reapplied \/ y \in applied)
    /\ UNCHANGED <<cfg, seed, rng, arrays, Q_samples, C_values, sim, year, outputs, pc, error, drawn, last_onset, prev>>
    /\ UNCHANGED <<avg_num_wildfires, report, elsewhere>>

Next ==
    \/ DrawBaseline
    \/ DrawPostWildfire
    \/ DrawOccurrences
    \/ BeginTrial
    \/ YearStep
    \/ StoreTrial
    \/ Summarize

NextReplay ==
    \/ Next
    \/ Restart

\* The script under its widgets.
Spec == Init /\ [][Next]_vars

\* The simulation block on any configuration.
SpecCore == InitCore /\ [][Next]_vars

\* The script under its widgets, run and run again.
SpecReplay == Init /\ [][NextReplay]_vars

NextScript ==
    \/ Next
    \/ SweepDuration
    \/ ExportResults

\* The script under its widgets, to its end.
SpecScript == Init /\ [][NextScript]_vars

NextReorder ==
    \/ Next
    \/ ApplyOnset

\* The simulation block on any configuration, and its year loop once more
\* in any order.
SpecReorder == InitCore /\ [][NextReorder]_vars

\* ====================================================== the claims

\* The arrays as the generator seeded with `seed` draws them (lines 41, 42, 49).
DrawnBaseline == NormalArray(dist.mb, dist.sb, SeedGenerator(seed), num_simulations, design_lifespan_years)

DrawnPostWildfire == NormalArray(dist.mp, dist.sp, RngAt(SeedGenerator(seed), num_simulations * design_lifespan_years), num_simulations, design_lifespan_years)

DrawnOccurrences == BinomialArray(prob_wildfire_percent, RngAt(SeedGenerator(seed), 2 * num_simulations * design_lifespan_years), num_simulations, design_lifespan_years)

\* The configuration is one the widgets of lines 24-36 can produce.
WidgetConfig ==
    /\ design_lifespan_years \in WidgetYears
    /\ fire_effect_duration \in WidgetDurations
    /\ prob_wildfire_percent \in WidgetProbs
    /\ dist = SliderDist

\* The sampling is over and the trial loop has started or finished.
InTrials == pc \in {"sim_loop", "year_loop", "done"}

\* The year loop of the current trial has scanned every year.
ScanDone == pc = "year_loop" /\ year >= design_lifespan_years

\* The trials whose row of Q_samples has been stored.
StoredTrials ==
    IF pc = "done" THEN Sims
    ELSE IF InTrials THEN {s \in Sims : s < sim}
    ELSE {}

MaxOf(S) == CHOOSE m \in S : \A x \in S : x <= m

\* The onsets of trial s whose window [x, x + duration) holds year y.
ActiveOnsets(s, y) ==
    {x \in 0 .. y : wildfire_occurrences[s][x] = 1 /\ y < x + fire_effect_duration}

\* Trial s's effective values as the claims describe them.
ExpectedEffective(s) ==
    [y \in Years |->
        IF ActiveOnsets(s, y) # {} THEN C_post_wildfire_samples[s][y]
        ELSE C_baseline_samples[s][y]]

\* Some onset of trial s took effect on a year whose override value differs
\* from its baseline value.
VisibleOverride(s) ==
    \E y \in Years :
        /\ ActiveOnsets(s, y) # {}
        /\ C_post_wildfire_samples[s][y] # C_baseline_samples[s][y]

\* C1: once the years of a trial have been scanned, each year holds the
\* override sample of that year if an onset at x with x <= y < x + duration
\* fired and the baseline sample otherwise, and the last onset to have written
\* a year is the latest onset whose window holds it; the stored discharges of
\* every finished trial are those of these values.
C1_EffectiveValues ==
    /\ ScanDone =>
        /\ C_values = ExpectedEffective(sim)
        /\ \A y \in Years :
              last_onset[y] = IF ActiveOnsets(sim, y) = {} THEN -1 ELSE MaxOf(ActiveOnsets(sim, y))
    /\ \A s \in StoredTrials : Q_samples[s] = Discharge(ExpectedEffective(s))

\* A scanned trial, on a configuration of the widgets, in which the windows
\* of two onsets overlap on a year whose override value differs from its
\* baseline value and from the override value of the later onset's year.
C1_Witness ==
    /\ WidgetConfig
    /\ ScanDone
    /\ \E x1, x2, y \in Years :
        /\ x1 < x2 /\ x2 <= y
        /\ {x1, x2} \subseteq ActiveOnsets(sim, y)
        /\ last_onset[y] = x2
        /\ C_values[y] # C_baseline_samples[sim][y]
        /\ C_post_wildfire_samples[sim][y] # C_post_wildfire_samples[sim][x2]

\* An iteration of the year loop on a year whose onset fired.
OnsetStep == pc = "year_loop" /\ year < design_lifespan_years /\ wildfire_occurrences[sim][year] = 1

\* C2: the iteration of an onset at year y writes exactly the years
\* y .. min(y + duration, num_years) - 1 of C_values, with the override
\* samples of these years; the array keeps its index set, and every other
\* year of the trial, every other array and every stored row are unchanged.
C2_OnsetWritesItsWindow ==
    [][OnsetStep =>
        /\ DOMAIN C_values' = Years
        /\ \A i \in Years :
              LET inWindow == year <= i /\ i < year + fire_effect_duration
              IN  /\ C_values'[i] = IF inWindow THEN C_post_wildfire_samples[sim][i] ELSE C_values[i]
                  /\ last_onset'[i] = IF inWindow THEN year ELSE last_onset[i]
        /\ UNCHANGED <<arrays, Q_samples, sim>>]_vars

\* On a configuration of the widgets, an onset after the first year whose
\* window the end of the trial cut short has just been applied.
C2_Witness ==
    /\ WidgetConfig
    /\ pc = "year_loop"
    /\ year >= 2
    /\ wildfire_occurrences[sim][year - 1] = 1
    /\ year - 1 + fire_effect_duration > design_lifespan_years
    /\ fire_effect_duration >= 2
    /\ last_onset[year - 1] = year - 1
    /\ last_onset[0] = -1
    /\ C_values[year - 1] # C_baseline_samples[sim][year - 1]

\* C3: with hazard probability 0 no onset indicator is 1, the effective
\* values of every trial are its baseline values, every trial's time-averaged
\* value is its baseline-only one, and so is the cross-trial mean.
C3_ZeroProbabilityIsBaseline ==
    prob_wildfire_percent = 0 =>
        /\ InTrials => \A s \in Sims : \A y \in Years : wildfire_occurrences[s][y] = 0
        /\ pc = "year_loop" => C_values = C_baseline_samples[sim]
        /\ \A s \in StoredTrials : Q_samples[s] = Discharge(C_baseline_samples[s])
        /\ pc = "done" =>
              /\ \A s \in Sims : Q_avg_lifespan[s] = Q_avg_baseline[s] /\ ~IsNaN(Q_avg_lifespan[s])
              /\ CrossMean(Q_avg_lifespan) = CrossMean(Q_avg_baseline)

\* A finished run with probability 0, on several years, some of whose
\* override samples differ from the baseline samples.
C3_Witness ==
    /\ prob_wildfire_percent = 0
    /\ pc = "done"
    /\ design_lifespan_years >= 2
    /\ \A s \in Sims : \E y \in Years : C_post_wildfire_samples[s][y] # C_baseline_samples[s][y]

\* The configuration is one every sampling call accepts.
SamplingAccepts == design_lifespan_years >= 0 /\ prob_wildfire_percent >= 0 /\ prob_wildfire_percent <= 1000

\* C4: with duration 0 the effective values stay the baseline values whatever
\* onsets fire, and the run raises nothing and goes on to its end.
C4_ZeroDurationIsNoOp ==
    fire_effect_duration = 0 =>
        /\ pc = "year_loop" => C_values = C_baseline_samples[sim]
        /\ pc = "year_loop" => \A y \in Years : last_onset[y] = -1
        /\ \A s \in StoredTrials : Q_samples[s] = Discharge(C_baseline_samples[s])
        /\ pc = "done" => \A s \in Sims : Q_avg_lifespan[s] = Q_avg_baseline[s]
        /\ SamplingAccepts => error = "none" /\ pc # "failed" /\ (pc # "done" => ENABLED Next)

\* A finished run with duration 0 in which an onset fired on a year whose
\* override sample differs from its baseline sample.
C4_Witness ==
    /\ fire_effect_duration = 0
    /\ pc = "done"
    /\ \E s \in Sims : \E y \in Years :
          /\ wildfire_occurrences[s][y] = 1
          /\ C_post_wildfire_samples[s][y] # C_baseline_samples[s][y]

\* C5: with probability 1.0 every onset fires; when every onset of a trial
\* fires and the duration is at least 1, every year holds its override value;
\* in the scenario of 5 years, duration 5, constant baseline 1.0 and constant
\* hazard value 9.0 every trial's effective values are five 9.0 and its
\* time-averaged value is 9.0.
C5_EveryYearOnset ==
    /\ (InTrials /\ prob_wildfire_percent = 1000) =>
          \A s \in Sims : \A y \in Years : wildfire_occurrences[s][y] = 1
    /\ (ScanDone /\ fire_effect_duration >= 1 /\ \A y \in Years : wildfire_occurrences[sim][y] = 1) =>
          C_values = C_post_wildfire_samples[sim]
    /\ (prob_wildfire_percent = 1000 /\ design_lifespan_years = 5 /\ fire_effect_duration = 5 /\ dist = ConstantDist) =>
          /\ ScanDone => C_values = [y \in 0 .. 4 |-> 900]
          /\ \A s \in StoredTrials : Q_samples[s] = Discharge([y \in 0 .. 4 |-> 900])
          /\ pc = "done" =>
                \A s \in Sims : Q_avg_lifespan[s] = [num |-> 5 * 900 * rainfall_intensity * drainage_area_m2, den |-> 5]

\* The scenario has run to its end.
C5_Witness ==
    /\ prob_wildfire_percent = 1000
    /\ design_lifespan_years = 5
    /\ fire_effect_duration = 5
    /\ dist = ConstantDist
    /\ pc = "done"
    /\ Q_avg_baseline[0] = [num |-> 5 * 100 * rainfall_intensity * drainage_area_m2, den |-> 5]

\* C6: a trial's effective values start as its baseline row; the baseline,
\* override and onset arrays stay as they were drawn; the baseline-only
\* averages are the per-trial means of the discharges of the drawn baseline
\* values.
C6_BaselinePreserved ==
    /\ (pc = "year_loop" /\ year = 0) => C_values = DrawnBaseline[sim]
    /\ "baseline" \in drawn => C_baseline_samples = DrawnBaseline
    /\ "post" \in drawn => C_post_wildfire_samples = DrawnPostWildfire
    /\ "occ" \in drawn => wildfire_occurrences = DrawnOccurrences
    /\ pc = "done" =>
          \A s \in Sims : Q_avg_baseline[s] = Mean(Discharge(DrawnBaseline[s]), design_lifespan_years)

\* A finished run, on a configuration of the widgets, in which an override
\* changed a trial's average.
C6_Witness ==
    /\ WidgetConfig
    /\ pc = "done"
    /\ \E s \in Sims : VisibleOverride(s) /\ Q_avg_lifespan[s] # Q_avg_baseline[s]

\* The orders in which the trials can be taken.
TrialOrders == {o \in [1 .. num_simulations -> Sims] : \A i, j \in 1 .. num_simulations : o[i] = o[j] => i = j}

\* The stored discharges after the trial loop has taken the trials in order o.
RunTrials(o) == RunTrialsFrom([Q |-> Zeros, C |-> <<>>], o, 1).Q

Rejected == pc = "failed" /\ error \in {"InvalidConfig", "ValueError"}

InvalidConfiguration ==
    \/ design_lifespan_years <= 0
    \/ num_simulations <= 0
    \/ prob_wildfire_percent < 0
    \/ prob_wildfire_percent > 1000

MainSimulation(d) == AvgLifespan([s \in Sims |-> Discharge(ScanYears(InitialC(<<>>, s), s, 0, d))])

\* C11: every mean the sweep has appended is the mean the main simulation's
\* loop gives on the same three arrays with the sweep's duration as
\* fire_effect_duration (and is the mean of the main run's own averages where
\* the two durations agree), and the arrays are still the ones drawn.
C11_SweepIsMainSimulation ==
    /\ \A i \in 1 .. Len(mean_discharge_vs_duration) :
        /\ mean_discharge_vs_duration[i] = CrossMean(MainSimulation(durations[i]))
        /\ durations[i] = fire_effect_duration => mean_discharge_vs_duration[i] = CrossMean(Q_avg_lifespan)
    /\ Len(mean_discharge_vs_duration) > 0 =>
        /\ C_baseline_samples = DrawnBaseline
        /\ C_post_wildfire_samples = DrawnPostWildfire
        /\ wildfire_occurrences = DrawnOccurrences
        /\ rng = RngAt(SeedGenerator(seed), 3 * num_simulations * design_lifespan_years)

\* The sweep is over, its durations include the run's, and its means differ
\* from the first duration to the second and from the second to the third.
C11_Witness ==
    /\ Len(mean_discharge_vs_duration) = Len(durations)
    /\ \E i \in 1 .. Len(durations) : durations[i] = fire_effect_duration
    /\ mean_discharge_vs_duration[1] # mean_discharge_vs_duration[2]
    /\ mean_discharge_vs_duration[2] # mean_discharge_vs_duration[3]

\* C17: the exported table has one row per trial, in trial order, and four
\* columns: the trial's id, its time-averaged value with hazard, its
\* time-averaged baseline value and its hazard count.
C17_ExportHasTrialId ==
    pc = "exported" =>
        /\ Len(csv_data.rows) = num_simulations
        /\ Len(csv_data.header) = 4
        /\ \A i \in 1 .. Len(csv_data.rows) :
            \/ csv_data.rows[i] = <<i - 1, Q_avg_lifespan[i - 1], Q_avg_baseline[i - 1], num_wildfires[i - 1]>>
            \/ csv_data.rows[i] = <<i, Q_avg_lifespan[i - 1], Q_avg_baseline[i - 1], num_wildfires[i - 1]>>

\* The onset years of trial s, as drawn.
OnsetYears(s) == {y \in Years : DrawnOccurrences[s][y] = 1}

\* C18: a trial's hazard count, in the summary and in the export, is the
\* number of its years whose onset indicator is 1, whatever the duration;
\* the reported average is the mean of the counts over the trials.
C18_HazardCount ==
    /\ pc \in {"done", "exported"} =>
        /\ \A s \in Sims : num_wildfires[s] = Cardinality(OnsetYears(s))
        /\ avg_num_wildfires = [num |-> SumTo([s \in Sims |-> Cardinality(OnsetYears(s))], num_simulations), den |-> num_simulations]
    /\ pc = "exported" =>
        \A s \in Sims : export_df.data[s + 1][3] = Cardinality(OnsetYears(s))

\* The results are exported and a trial has an onset in the effect window
\* of an earlier one, whose own window the end of the trial cuts short.
C18_Witness ==
    /\ pc = "exported"
    /\ \E s \in Sims : \E y, z \in OnsetYears(s) :
        /\ z < y
        /\ y < z + fire_effect_duration
        /\ y + fire_effect_duration > design_lifespan_years
        /\ num_wildfires[s] >= 2

\* ------------------------------------------------- order and duration

\* C21: whatever the order in which the years' onsets are taken, and however
\* often a year is taken, once every year has been taken each trial's
\* effective values are the ones the script's loop (increasing years, each
\* once) produced; and taking again a year already taken changes nothing.
C21_OnsetOrderIndependent ==
    pc = "done" /\ applied # {} =>
        /\ applied = Years =>
            /\ \A s \in Sims : Discharge(C_reordered[s]) = Q_samples[s]
            /\ C_reordered[num_simulations - 1] = C_values
        /\ \A s \in Sims : \A y \in applied :
            OverrideYear(C_reordered[s], s, y, fire_effect_duration) = C_reordered[s]

\* On a widget configuration every year has been taken, some year after a
\* later one and some year twice, and a trial has two onsets whose effect
\* windows overlap.
C21_Witness ==
    /\ pc = "done"
    /\ WidgetConfig
    /\ applied = Years
    /\ out_of_order
    /\ reapplied
    /\ \E s \in Sims : \E y, z \in Years :
        /\ z < y
        /\ y < z + fire_effect_duration
        /\ wildfire_occurrences[s][z] = 1
        /\ wildfire_occurrences[s][y] = 1
        /\ C_post_wildfire_samples[s][y] # C_post_wildfire_samples[s][z]

\* The years that line 57 writes in trial s when the effect lasts d years:
\* the indices of the slices year:end_effect of the trial's onsets.
Overridden(s, d) ==
    {i \in Years : \E y \in Years :
        /\ OnsetFired(wildfire_occurrences[s][y])
        /\ i \in SliceIndices(Years, y, EndEffectYear(y, d, design_lifespan_years))}

\* The same for line 129 of the sweep.
SweepOverridden(s, d) ==
    {i \in Years : \E y \in Years :
        /\ wildfire_occurrences[s][y] = 1
        /\ i \in SliceIndices(Years, y, SweepEndEffect(y, d, design_lifespan_years))}

\* From the trial's first onset to its last year; no year without an onset.
FromFirstOnset(s) ==
    {i \in Years : \E y \in Years : wildfire_occurrences[s][y] = 1 /\ y <= i}

\* The effect durations compared: 0 to one more than the largest.
Durations == 0 .. (MaxDuration + 1)

\* C22: on the arrays of a run, in the main loop and in the sweep alike, the
\* values a trial ends with are the post-wildfire values on its overridden
\* years and the baseline values elsewhere; every year overridden with
\* duration d is overridden with duration d + 1; and with a duration of at
\* least the number of years the overridden years are exactly the years from
\* the trial's first onset to its last year.
C22_OverriddenGrowsWithDuration ==
    pc = "done" =>
        \A s \in Sims : \A d \in Durations :
            /\ ScanYears(InitialC(<<>>, s), s, 0, d) =
                [i \in Years |-> IF i \in Overridden(s, d)
                                 THEN C_post_wildfire_samples[s][i]
                                 ELSE C_baseline_samples[s][i]]
            /\ SweepYears(NpCopy(C_baseline_samples[s]), s, 0, d) =
                [i \in Years |-> IF i \in SweepOverridden(s, d)
                                 THEN C_post_wildfire_samples[s][i]
                                 ELSE C_baseline_samples[s][i]]
            /\ Overridden(s, d) \subseteq Overridden(s, d + 1)
            /\ SweepOverridden(s, d) \subseteq SweepOverridden(s, d + 1)
            /\ d >= design_lifespan_years =>
                /\ Overridden(s, d) = FromFirstOnset(s)
                /\ SweepOverridden(s, d) = FromFirstOnset(s)

\* A run on a widget configuration with a trial whose first onset is not its
\* first year, whose overridden years grow strictly from duration 1 to 2 and
\* again up to the whole tail, where the end of the trial cuts the window of
\* each of its onsets.
C22_Witness ==
    /\ pc = "done"
    /\ WidgetConfig
    /\ \E s \in Sims :
        /\ wildfire_occurrences[s][0] = 0
        /\ Overridden(s, 1) # {}
        /\ Overridden(s, 1) # Overridden(s, 2)
        /\ Overridden(s, 2) # Overridden(s, design_lifespan_years)
        /\ Overridden(s, design_lifespan_years) = FromFirstOnset(s)

\* ====================================================================
\* Part 2: gutterflow_streamlit_app_v3.py, the composite gutter calculator.
\*
\* Units.  A width (T, W) is an integer number of centimetres; a slope
\* (Sw, Sx, Sl) and a roughness (Nw, Nx) are integers in thousandths.  An
\* area is in mm2, a wetted perimeter in mm, a hydraulic radius in 1e-5 m.
\* A discharge is the integer value of line 91 in these units, one unit
\* being 4.6416e-9 m3/s.  An interpolated width is in 1e-4 m (FineScale to
\* the centimetre) and a depth in 1e-7 m.  Floating-point roots and
\* quotients are rounded down to the unit.

\* ------------------------------------------------------------- bounds

\* Number of samples of line 115 (500 in the script), scaled down.
NumSamples == 10

\* Largest top width, in cm, that compute_composite_flow is called with on
\* its own.
MaxWidth == 60

\* ------------------------------------------------- the script's inputs

\* Line 115: np.linspace(0.01, 10.0, 500), the ends in cm.
T_first == 1

T_last == 1000

\* Units of an interpolated width in a centimetre.
FineScale == 100

\* Discharge units in 0.001 m3/s, the step of the inputs of lines 87, 88.
QPerMilli == 215443

\* Line 144: 0.150 m, in depth units.
DepthLimit == 1500000

\* Lines 81-86: the widgets' defaults, and a second section within their ranges.
DefaultSection == [W |-> 30, Sw |-> 65, Nw |-> 12, Sx |-> 20, Nx |-> 18, Sl |-> 20]

WideSection == [W |-> 60, Sw |-> 40, Nw |-> 12, Sx |-> 30, Nx |-> 16, Sl |-> 10]

\* Sections the sliders cannot produce: no gutter (W = 0) and a flat gutter
\* (Sw = 0).
NoGutterSection == [W |-> 0, Sw |-> 65, Nw |-> 12, Sx |-> 20, Nx |-> 18, Sl |-> 20]

FlatGutterSection == [W |-> 30, Sw |-> 0, Nw |-> 12, Sx |-> 20, Nx |-> 18, Sl |-> 20]

\* Lines 87-88: number inputs without a range, in 0.001 m3/s.
QmaxInputs == {-1, 0, 5, 25, 100, 400, 2000}

QInputs == {-10, 0, 5, 25, 60, 90, 150, 1500, 2500}

\* ----------------------------------------------- floating point, rounded

RECURSIVE RootBetween(_, _, _, _)
\* The largest r in lo .. hi (lo a root already) with r^k <= x, k = 2 or 3.
RootBetween(lo, hi, x, k) ==
    IF lo >= hi THEN lo
    ELSE LET mid == (lo + hi + 1) \div 2
             pow == IF k = 2 THEN mid * mid ELSE mid * mid * mid
         IN  IF pow <= x THEN RootBetween(mid, hi, x, k) ELSE RootBetween(lo, mid - 1, x, k)

\* np.sqrt and ** 0.5 of a nonnegative value.
Sqrt(x) == RootBetween(0, 46340, x, 2)

\* The cube root of a nonnegative value.
Cbrt(x) == RootBetween(0, 1290, x, 3)

RECURSIVE MulDivMod(_, _, _)
\* Quotient and remainder of a * b by c, for a >= 0, 0 <= b < c, with no
\* intermediate product.
MulDivMod(a, b, c) ==
    IF a = 0 THEN [q |-> 0, r |-> 0]
    ELSE LET h == MulDivMod(a \div 2, b, c)
             x == 2 * h.r + (a % 2) * b
         IN  [q |-> 2 * h.q + x \div c, r |-> x % c]

\* a * b / c rounded down, for a >= 0 and c > 0.
MulDiv(a, b, c) == a * (b \div c) + MulDivMod(a, b % c, c).q

\* --------------------------------------------------- the forward model

\* Line 91: (1 / n) * area * hydraulic_radius ** (2 / 3) * slope ** 0.5.
mannings_flow(area, hydraulic_radius, slope, n) ==
    ((area * Cbrt(hydraulic_radius * hydraulic_radius)) \div n) * Sqrt(slope * 10)

\* Mutant: the sentinel is a radius of one unit.
HydraulicRadius_unit_sentinel(area, perimeter) == IF perimeter # 0 THEN (area * 100) \div perimeter ELSE 1

\* Lines 99 and 104: A / P if P != 0 else 0.
HydraulicRadius(area, perimeter) == IF perimeter # 0 THEN (area * 100) \div perimeter ELSE 0

\* Lines 94-107: the locals of compute_composite_flow and its value Q.
CompositeFlowLocals(T, w, sw, nw, sx, nx, sl) ==
    LET Tw == IF T < w THEN T ELSE w
        Ts == IF T - w > 0 THEN T - w ELSE 0
        Aw == (Tw * sw * Tw) \div 20
        Pw == (10 * Tw * Sqrt(1000000 + sw * sw)) \div 1000
        Rw == HydraulicRadius(Aw, Pw)
        Qw == mannings_flow(Aw, Rw, sl, nw)
        As == (Ts * (2 * sw * w + sx * Ts)) \div 20
        Ps == 10 * Ts + Sqrt(((sw * w) \div 100) * ((sw * w) \div 100) + (10 * Ts) * (10 * Ts)) + (10 * Ts * Sqrt(1000000 + sx * sx)) \div 1000
        Rs == HydraulicRadius(As, Ps)
        Qs == mannings_flow(As, Rs, sl, nx)
    IN  [Pw |-> Pw, Rw |-> Rw, Qw |-> Qw, Ps |-> Ps, Rs |-> Rs, Qs |-> Qs, Q |-> Qw + Qs]

\* Lines 93-107.
compute_composite_flow(T, w, sw, nw, sx, nx, sl) == CompositeFlowLocals(T, w, sw, nw, sx, nx, sl).Q

\* Lines 109-113, for a width in 1e-4 m.
compute_max_depth(T, w, sw, sx) ==
    IF T <= FineScale * w THEN sw * T
    ELSE sw * w * FineScale + sx * (T - FineScale * w)

\* ----------------------------------------------------------- the solver

\* Line 115: np.linspace(start, stop, num).
linspace(start, stop, num) == [i \in 1 .. num |-> start + ((i - 1) * (stop - start)) \div (num - 1)]

\* Lines 117-118: the test of the two comprehensions.
FilterKeeps(Q, ceiling) == Q <= ceiling

RECURSIVE FilterBy(_, _, _, _)
\* Lines 117-118: the entries of vals, from the i-th on, whose discharge
\* passes the test.
FilterBy(vals, Qs, ceiling, i) ==
    IF i > Len(vals) THEN <<>>
    ELSE (IF FilterKeeps(Qs[i], ceiling) THEN <<vals[i]>> ELSE <<>>) \o FilterBy(vals, Qs, ceiling, i + 1)

\* Line 121: interp1d raises ValueError unless it is given two points.
Interp1dRaises(x) == Len(x) < 2

\* np.searchsorted(x, v), side left: the number of entries below v.
SearchSorted(x, v) == Cardinality({i \in 1 .. Len(x) : x[i] < v})

Clip(i, lo, hi) == IF i < lo THEN lo ELSE IF i > hi THEN hi ELSE i

\* Mutant: the interval is the one before the insertion point's.
InterpInterval_previous(x, v) == Clip(SearchSorted(x, v) - 1, 1, Len(x) - 1)

\* interp1d's linear kind: the interval (lo = the result, hi = lo + 1, as
\* indices from 1) that the value is interpolated in; the ends' intervals
\* serve the values beyond them (fill_value="extrapolate").
InterpInterval(x, v) == Clip(SearchSorted(x, v), 1, Len(x) - 1)

\* Mutant: the slope is applied to the value, not to its distance from the
\* interval's lower end.
Interpolate_no_offset(x, y, v) ==
    LET lo == InterpInterval(x, v)
    IN  FineScale * y[lo] + MulDiv(FineScale * (y[lo + 1] - y[lo]), v, x[lo + 1] - x[lo])

\* Lines 121-122: interp1d(x, y, fill_value="extrapolate")(v), for x
\* increasing: slope * (v - x_lo) + y_lo.
Interpolate(x, y, v) ==
    LET lo == InterpInterval(x, v)
    IN  FineScale * y[lo] + MulDiv(FineScale * (y[lo + 1] - y[lo]), v - x[lo], x[lo + 1] - x[lo])

None == <<>>

\* Mutant: a failed solve keeps the smallest sampled width.
FailedSolve_smallest_width == [T |-> <<FineScale * T_first>>, depth |-> None]

\* Lines 124-126: what the except clause assigns.
FailedSolve == [T |-> None, depth |-> None]

\* Lines 130 and 141: the truth value of T_for_Q_input (None and 0.0 are false).
Truthy(t) == t # None /\ t[1] # 0

\* Mutant: the result is shown whenever there is one.
ShowResult_any_target(t, target, ceiling) == Truthy(t)

\* Lines 130 and 141: the condition of the two if statements.
ShowResult(t, target, ceiling) == Truthy(t) /\ target <= ceiling

\* ------------------------------------------------------ Init, actions

\* The script as its widgets start it (lines 81-88).
InitGutter ==
    /\ \E section \in {DefaultSection, WideSection} :
        /\ W = section.W
        /\ Sw = section.Sw
        /\ Nw = section.Nw
        /\ Sx = section.Sx
        /\ Nx = section.Nx
        /\ Sl = section.Sl
    /\ \E m \in QmaxInputs : Q_max = m * QPerMilli
    /\ \E q \in QInputs : Q_input = q * QPerMilli
    /\ T_values = <<>>
    /\ Q_values = <<>>
    /\ T_filtered = <<>>
    /\ Q_filtered = <<>>
    /\ T_for_Q_input = None
    /\ depth_for_Q_input = None
    /\ gutter_shown = <<>>
    /\ gutter_pc = "sample"
    /\ T_arg = 0
    /\ flow_call = <<>>
    /\ WildfireIdle
    /\ InletIdle
    /\ GradeIdle

\* A call of compute_composite_flow with any section and any width T >= 0.
InitFlow ==
    /\ \E section \in {DefaultSection, WideSection, NoGutterSection, FlatGutterSection} :
        /\ W = section.W
        /\ Sw = section.Sw
        /\ Nw = section.Nw
        /\ Sx = section.Sx
        /\ Nx = section.Nx
        /\ Sl = section.Sl
    /\ T_arg \in 0 .. MaxWidth
    /\ flow_call = <<>>
    /\ Q_max = 0
    /\ Q_input = 0
    /\ T_values = <<>>
    /\ Q_values = <<>>
    /\ T_filtered = <<>>
    /\ Q_filtered = <<>>
    /\ T_for_Q_input = None
    /\ depth_for_Q_input = None
    /\ gutter_shown = <<>>
    /\ gutter_pc = "call"
    /\ WildfireIdle
    /\ InletIdle
    /\ GradeIdle

\* Lines 93-107: the call returns.
ComputeCompositeFlow ==
    /\ gutter_pc = "call"
    /\ flow_call' = CompositeFlowLocals(T_arg, W, Sw, Nw, Sx, Nx, Sl)
    /\ gutter_pc' = "returned"
    /\ UNCHANGED <<gutter_inputs, T_values, Q_values, T_filtered, Q_filtered, T_for_Q_input, depth_for_Q_input, gutter_shown, T_arg>>
    /\ UNCHANGED <<wildfire_vars, inlet_vars, grade_vars>>

\* Lines 115-116.
SampleForwardModel ==
    /\ gutter_pc = "sample"
    /\ T_values' = linspace(T_first, T_last, NumSamples)
    /\ Q_values' = [i \in 1 .. NumSamples |-> compute_composite_flow(linspace(T_first, T_last, NumSamples)[i], W, Sw, Nw, Sx, Nx, Sl)]
    /\ gutter_pc' = "filter"
    /\ UNCHANGED <<gutter_inputs, T_filtered, Q_filtered, T_for_Q_input, depth_for_Q_input, gutter_shown, T_arg, flow_call>>
    /\ UNCHANGED <<wildfire_vars, inlet_vars, grade_vars>>

\* Lines 117-118.
FilterSamples ==
    /\ gutter_pc = "filter"
    /\ T_filtered' = FilterBy(T_values, Q_values, Q_max, 1)
    /\ Q_filtered' = FilterBy(Q_values, Q_values, Q_max, 1)
    /\ gutter_pc' = "solve"
    /\ UNCHANGED <<gutter_inputs, T_values, Q_values, T_for_Q_input, depth_for_Q_input, gutter_shown, T_arg, flow_call>>
    /\ UNCHANGED <<wildfire_vars, inlet_vars, grade_vars>>

\* Lines 120-126: the try statement.
Solve ==
    /\ gutter_pc = "solve"
    /\ IF Interp1dRaises(Q_filtered)
       THEN /\ T_for_Q_input' = FailedSolve.T
            /\ depth_for_Q_input' = FailedSolve.depth
       ELSE LET t == Interpolate(Q_filtered, T_filtered, Q_input)
            IN  /\ T_for_Q_input' = <<t>>
                /\ depth_for_Q_input' = <<compute_max_depth(t, W, Sw, Sx)>>
    /\ gutter_pc' = "report"
    /\ UNCHANGED <<gutter_inputs, T_values, Q_values, T_filtered, Q_filtered, gutter_shown, T_arg, flow_call>>
    /\ UNCHANGED <<wildfire_vars, inlet_vars, grade_vars>>

\* Lines 141-145: the result is written, or nothing is.
Report ==
    /\ gutter_pc = "report"
    /\ gutter_shown' =
         IF ShowResult(T_for_Q_input, Q_input, Q_max)
         THEN <<[text |-> "Computed Top Width", Q_input |-> Q_input, T |-> T_for_Q_input[1]],
                [text |-> "Maximum Depth", T |-> T_for_Q_input[1], depth |-> depth_for_Q_input[1]]>>
              \o (IF depth_for_Q_input[1] > DepthLimit THEN <<[text |-> "Maximum depth exceeds 150 mm limit"]>> ELSE <<>>)
         ELSE <<>>
    /\ gutter_pc' = "done"
    /\ UNCHANGED <<gutter_inputs, T_values, Q_values, T_filtered, Q_filtered, T_for_Q_input, depth_for_Q_input, T_arg, flow_call>>
    /\ UNCHANGED <<wildfire_vars, inlet_vars, grade_vars>>

NextGutter ==
    \/ SampleForwardModel
    \/ FilterSamples
    \/ Solve
    \/ Report

\* The gutter script under its widgets.
SpecGutter == InitGutter /\ [][NextGutter]_vars

NextFlow == ComputeCompositeFlow

\* compute_composite_flow on its own.
SpecFlow == InitFlow /\ [][NextFlow]_vars

\* ------------------------------------------------- the gutter's claims

\* The try statement of lines 120-126 is over.
Solved == gutter_pc \in {"report", "done"}

\* The samples the inversion uses span a range and the target is in it.
TargetInRange ==
    /\ Len(Q_filtered) >= 2
    /\ Q_filtered[1] <= Q_input
    /\ Q_input <= Q_filtered[Len(Q_filtered)]

\* The samples the inversion uses span a range and the target is outside it.
TargetOutOfRange ==
    /\ Len(Q_filtered) >= 2
    /\ Q_input < Q_filtered[1] \/ Q_input > Q_filtered[Len(Q_filtered)]

\* The intervals of adjacent samples whose discharges bracket the target.
Brackets == {i \in 1 .. Len(Q_filtered) - 1 : Q_filtered[i] <= Q_input /\ Q_input <= Q_filtered[i + 1]}

Abs(x) == IF x < 0 THEN -x ELSE x

\* C12: a target outside the range of the discharges used for the inversion
\* gets no answer: the script has no flag to mark an extrapolated width
\* with, so that no width is shown for it.
C12_OutOfRangeNotAnswered ==
    gutter_pc = "done" /\ TargetOutOfRange => gutter_shown = <<>>

C14_SolvedWidthInBracket ==
    Solved =>
        /\ \A i \in 1 .. Len(Q_values) - 1 : Q_values[i] < Q_values[i + 1]
        /\ \A i \in 1 .. Len(T_values) - 2 : Abs((T_values[i + 2] - T_values[i + 1]) - (T_values[i + 1] - T_values[i])) <= 1
        /\ TargetInRange =>
            /\ Brackets # {}
            /\ \A i \in Brackets :
                /\ FineScale * T_filtered[i] <= T_for_Q_input[1]
                /\ T_for_Q_input[1] <= FineScale * T_filtered[i + 1]
                /\ \E r \in T_filtered[i] .. T_filtered[i + 1] - 1 :
                    /\ compute_composite_flow(r, W, Sw, Nw, Sx, Nx, Sl) <= Q_input
                    /\ Q_input <= compute_composite_flow(r + 1, W, Sw, Nw, Sx, Nx, Sl)
                    /\ Abs(T_for_Q_input[1] - FineScale * r) <= FineScale * (T_filtered[i + 1] - T_filtered[i])

\* The target is strictly between the discharges of the second and third
\* samples used, and the solved width strictly between their widths.
C14_Witness ==
    /\ gutter_pc = "done"
    /\ Len(Q_filtered) >= 3
    /\ Q_filtered[2] < Q_input
    /\ Q_input < Q_filtered[3]
    /\ FineScale * T_filtered[2] < T_for_Q_input[1]
    /\ T_for_Q_input[1] < FineScale * T_filtered[3]
    /\ gutter_shown # <<>>

\* The whole centimetres next below and next above a width.
WidthBelow(t) == t \div FineScale

WidthAbove(t) == IF t % FineScale = 0 THEN t \div FineScale ELSE t \div FineScale + 1

\* C15: for a target within the range of the discharges used, the model's
\* discharge at the solved width (at the centimetres on either side of it,
\* the model being monotone) is within the discharge difference of the
\* bracketing samples of the target.
C15_RoundTrip ==
    Solved /\ TargetInRange =>
        \A i \in Brackets :
            /\ Abs(compute_composite_flow(WidthBelow(T_for_Q_input[1]), W, Sw, Nw, Sx, Nx, Sl) - Q_input) <= Q_filtered[i + 1] - Q_filtered[i]
            /\ Abs(compute_composite_flow(WidthAbove(T_for_Q_input[1]), W, Sw, Nw, Sx, Nx, Sl) - Q_input) <= Q_filtered[i + 1] - Q_filtered[i]

\* The target is strictly inside the last interval of the samples used, and
\* the model's discharge at the solved width is not the target.
C15_Witness ==
    /\ gutter_pc = "done"
    /\ TargetInRange
    /\ Q_filtered[Len(Q_filtered) - 1] < Q_input
    /\ Q_input < Q_filtered[Len(Q_filtered)]
    /\ compute_composite_flow(WidthBelow(T_for_Q_input[1]), W, Sw, Nw, Sx, Nx, Sl) # Q_input

\* C16: a part of the section whose wetted perimeter is zero has hydraulic
\* radius 0 and discharge 0, and the call returns a discharge (a number, not
\* negative) for every top width T >= 0.
C16_ZeroPerimeterSentinel ==
    gutter_pc = "returned" =>
        /\ flow_call.Pw = 0 => flow_call.Rw = 0 /\ flow_call.Qw = 0
        /\ flow_call.Ps = 0 => flow_call.Rs = 0 /\ flow_call.Qs = 0
        /\ flow_call.Q \in Nat
        /\ flow_call.Q = flow_call.Qw + flow_call.Qs

\* The call was made with T = 0: both perimeters are zero.
C16_Witness ==
    /\ gutter_pc = "returned"
    /\ T_arg = 0
    /\ flow_call.Pw = 0
    /\ flow_call.Ps = 0

\* The messages of lines 142-145.
ResultTexts == {"Computed Top Width", "Maximum Depth", "Maximum depth exceeds 150 mm limit"}

\* C19: the samples inverted are exactly the samples with Q <= Q_max, in
\* order; a width and a depth are shown iff the solved width is neither None
\* nor zero and Q_input <= Q_max; and a target Q_input <= Q_max below the
\* smallest discharge used is given a width below the smallest sample width,
\* which is shown with the messages of any other result.
C19_CeilingDecides ==
    /\ Solved =>
        /\ Len(Q_filtered) = Cardinality({i \in 1 .. Len(Q_values) : Q_values[i] <= Q_max})
        /\ Len(T_filtered) = Len(Q_filtered)
        /\ \A i \in 1 .. Len(Q_filtered) : Q_filtered[i] = Q_values[i] /\ T_filtered[i] = T_values[i] /\ Q_filtered[i] <= Q_max
    /\ gutter_pc = "done" =>
        /\ gutter_shown # <<>> <=> (T_for_Q_input # None /\ T_for_Q_input[1] # 0 /\ Q_input <= Q_max)
        /\ gutter_shown # <<>> =>
            /\ gutter_shown[1].T = T_for_Q_input[1]
            /\ gutter_shown[2].depth = depth_for_Q_input[1]
            /\ \A k \in 1 .. Len(gutter_shown) : gutter_shown[k].text \in ResultTexts
        /\ (Q_input <= Q_max /\ Len(Q_filtered) >= 2 /\ Q_input < Q_filtered[1]) =>
            /\ T_for_Q_input # None
            /\ T_for_Q_input[1] < FineScale * T_filtered[1]
            /\ T_for_Q_input[1] # 0 => gutter_shown # <<>>

\* A target of 0 m3/s, below the first sample's discharge, is shown a width
\* below the first sample's.
C19_Witness ==
    /\ gutter_pc = "done"
    /\ Q_input = 0
    /\ Len(Q_filtered) >= 2
    /\ Q_input < Q_filtered[1]
    /\ gutter_shown # <<>>
    /\ gutter_shown[1].T < FineScale * T_filtered[1]

\* ====================================================================
\* Part 3: hec22_inlet_calculator.py, the grate inlet in a sag (lines
\* 300-417).
\*
\* Units.  A length (d_curb, grate width and length, a perimeter) is an
\* integer in hundredths of the length unit, an area in hundredths of its
\* square, a slope in thousandths, the average depth in 1e-4 length units.
\* g, the opening ratio and the coefficients are in hundredths, the clogging
\* factor in percent, the design flow in tenths of the flow unit.  A
\* capacity is in 1e-6 flow units.

\* Line 372.
Cw == 37

\* Line 375.
Co == 67

\* Lines 309 and 313.
g_US == 3220

g_SI == 981

\* Capacity units in a tenth of a flow unit.
FlowPerTenth == 100000

\* Lines 316-320, 335-336, 339-347, 356: values of the widgets.
SagSlopes == {0, 50, 100}

SagFlows == {1, 30, 50, 200}

SagDepths == {5, 33, 100}

SagWidths == {100, 200, 500}

SagLengths == {100, 300}

\* Line 339-347: P-1-7/8 and the tilt-bar grates.
SagOpeningRatios == {90, 34}

SagCloggings == {0, 50}

\* Line 350.
ClearArea(width, length, ratio) == (width * length * ratio) \div 10000

\* Line 359.
EffectivePerimeter(clogging, length, width) == ((100 - clogging) * (length + 2 * width)) \div 100

\* Line 360.
EffectiveArea(clogging, area) == ((100 - clogging) * area) \div 100

\* Line 369.
AverageDepth(depth, width, slope) == 100 * depth - (width * slope) \div 20

\* d ** 1.5 for d >= 0 in 1e-4, in thousandths.
Pow15(d) == (d * Sqrt(10000 * d)) \div 100000

\* Line 378 (Equation 7.14), for d >= 0.
WeirCapacity(gravity, perimeter, d) ==
    ((((Cw * Sqrt(2 * gravity * 10000)) \div 1000) * perimeter) * Pow15(d)) \div 10

\* Line 381 (Equation 7.15), for d >= 0.
OrificeCapacity(gravity, area, d) == ((Co * area) \div 10) * Sqrt(2 * gravity * d)

\* A negative float to the power 1.5 or 0.5 is a complex number.
Complex == "complex"

\* Mutant: the higher of the two capacities is taken.
ControllingRegime_highest(weir, orifice) ==
    IF weir > orifice THEN [flow_regime |-> "Weir Flow", Qi_sag |-> weir]
    ELSE [flow_regime |-> "Orifice Flow", Qi_sag |-> orifice]

\* Lines 384-389.
ControllingRegime(weir, orifice) ==
    IF weir < orifice THEN [flow_regime |-> "Weir Flow", Qi_sag |-> weir]
    ELSE [flow_regime |-> "Orifice Flow", Qi_sag |-> orifice]

\* Lines 406-417: the messages of the adequacy check.
Adequacy(capacity, flow) ==
    IF capacity >= flow THEN <<"Inlet is adequate">>
    ELSE <<"Inlet is inadequate", "Additional inlet capacity needed">>

\* The sag tab as its widgets start it.
InitSag ==
    /\ g \in {g_US, g_SI}
    /\ Sw_sag \in SagSlopes
    /\ Q_sag \in SagFlows
    /\ d_curb \in SagDepths
    /\ grate_width_sag \in SagWidths
    /\ grate_length_sag \in SagLengths
    /\ opening_ratio \in SagOpeningRatios
    /\ clogging_factor_sag \in SagCloggings
    /\ clear_area = 0
    /\ effective_perimeter = 0
    /\ effective_area = 0
    /\ d_avg = 0
    /\ Qi_weir = 0
    /\ Qi_orifice = 0
    /\ flow_regime = ""
    /\ Qi_sag = 0
    /\ sag_shown = <<>>
    /\ sag_pc = "geometry"
    /\ sag_error = "none"
    /\ WildfireIdle
    /\ GutterIdle
    /\ GradeIdle

\* Lines 350-369.
SagGeometry ==
    /\ sag_pc = "geometry"
    /\ clear_area' = ClearArea(grate_width_sag, grate_length_sag, opening_ratio)
    /\ effective_perimeter' = EffectivePerimeter(clogging_factor_sag, grate_length_sag, grate_width_sag)
    /\ effective_area' = EffectiveArea(clogging_factor_sag, ClearArea(grate_width_sag, grate_length_sag, opening_ratio))
    /\ d_avg' = AverageDepth(d_curb, grate_width_sag, Sw_sag)
    /\ sag_pc' = "capacities"
    /\ UNCHANGED <<sag_inputs, Qi_weir, Qi_orifice, flow_regime, Qi_sag, sag_shown, sag_error>>
    /\ UNCHANGED <<wildfire_vars, gutter_vars, grade_vars>>

\* Lines 378-381.
SagCapacities ==
    /\ sag_pc = "capacities"
    /\ Qi_weir' = IF d_avg < 0 THEN Complex ELSE WeirCapacity(g, effective_perimeter, d_avg)
    /\ Qi_orifice' = IF d_avg < 0 THEN Complex ELSE OrificeCapacity(g, effective_area, d_avg)
    /\ sag_pc' = "regime"
    /\ UNCHANGED <<sag_inputs, clear_area, effective_perimeter, effective_area, d_avg, flow_regime, Qi_sag, sag_shown, sag_error>>
    /\ UNCHANGED <<wildfire_vars, gutter_vars, grade_vars>>

\* Lines 384-389.  Complex numbers have no order: the comparison raises
\* TypeError.
SagRegime ==
    /\ sag_pc = "regime"
    /\ IF d_avg < 0
       THEN /\ sag_pc' = "failed"
            /\ sag_error' = "TypeError"
            /\ UNCHANGED <<flow_regime, Qi_sag>>
       ELSE /\ flow_regime' = ControllingRegime(Qi_weir, Qi_orifice).flow_regime
            /\ Qi_sag' = ControllingRegime(Qi_weir, Qi_orifice).Qi_sag
            /\ sag_pc' = "report"
            /\ UNCHANGED sag_error
    /\ UNCHANGED <<sag_inputs, clear_area, effective_perimeter, effective_area, d_avg, Qi_weir, Qi_orifice, sag_shown>>
    /\ UNCHANGED <<wildfire_vars, gutter_vars, grade_vars>>

\* Lines 393-417.
SagReport ==
    /\ sag_pc = "report"
    /\ sag_shown' = Adequacy(Qi_sag, Q_sag * FlowPerTenth)
    /\ sag_pc' = "reported"
    /\ UNCHANGED <<sag_inputs, clear_area, effective_perimeter, effective_area, d_avg, Qi_weir, Qi_orifice, flow_regime, Qi_sag, sag_error>>
    /\ UNCHANGED <<wildfire_vars, gutter_vars, grade_vars>>

NextSag ==
    \/ SagGeometry
    \/ SagCapacities
    \/ SagRegime
    \/ SagReport

\* The sag tab under its widgets.
SpecSag == InitSag /\ [][NextSag]_vars

\* -------------------------------------------------- the inlet's claims

\* C20: the capacity reported for a grate inlet in a sag is the lower of the
\* weir-flow capacity (Equation 7.14) and the orifice-flow capacity
\* (Equation 7.15); the regime is Weir Flow iff the weir capacity is strictly
\* lower, and Orifice Flow otherwise, a tie included; the inlet is reported
\* adequate iff the capacity is at least the design flow.
C20_SagCapacityIsLowest ==
    sag_pc \in {"report", "reported"} =>
        /\ Qi_weir = WeirCapacity(g, effective_perimeter, d_avg)
        /\ Qi_orifice = OrificeCapacity(g, effective_area, d_avg)
        /\ Qi_sag <= Qi_weir
        /\ Qi_sag <= Qi_orifice
        /\ Qi_sag \in {Qi_weir, Qi_orifice}
        /\ flow_regime = "Weir Flow" <=> Qi_weir < Qi_orifice
        /\ flow_regime = "Orifice Flow" <=> Qi_weir >= Qi_orifice
        /\ sag_pc = "reported" =>
            /\ sag_shown[1] = "Inlet is adequate" <=> Qi_sag >= Q_sag * FlowPerTenth
            /\ sag_shown[1] = "Inlet is inadequate" <=> Qi_sag < Q_sag * FlowPerTenth

\* The two capacities are equal (the average depth is zero) and the regime
\* reported is Orifice Flow.
C20_Witness ==
    /\ sag_pc = "reported"
    /\ Qi_weir = Qi_orifice
    /\ flow_regime = "Orifice Flow"
    /\ sag_shown[1] = "Inlet is inadequate"

\* ====================================================================
\* Part 4: the grate inlet on grade (hec22_inlet_calculator.py, first tab)
\* ====================================================================

\* Lengths, slopes, velocities, flows, coefficients and ratios are held in
\* ten-thousandths of their unit: 1.0 is Scale.
Scale == 10000

\* Binary digits of the fractional part of an exponent that ** takes.
PowBits == 10

\* a * b and a / b of two such values.
FMul(a, b) == IF a < 0 THEN -MulDiv(-a, b, Scale) ELSE MulDiv(a, b, Scale)

FDiv(a, b) == MulDiv(a, Scale, b)

\* ** 0.5 of such a value.
FSqrt(x) == IF x <= (46340 * 46340) \div Scale THEN Sqrt(x * Scale) ELSE Sqrt(x) * Sqrt(Scale)

RECURSIVE FracPow(_, _, _)
\* r ** (2 * f / 100) for 0 <= f < 100, by the binary digits of f / 100:
\* the product of the repeated square roots of r at the digits that are 1.
FracPow(r, f, k) ==
    IF k = 0 \/ f = 0 THEN Scale
    ELSE LET root == FSqrt(r)
         IN  IF 2 * f >= 100
             THEN FMul(root, FracPow(root, 2 * f - 100, k - 1))
             ELSE FracPow(root, 2 * f, k - 1)

RECURSIVE FPow(_, _)
\* x ** (e / 100) for x >= 0 and e >= 0 in hundredths.
FPow(x, e) ==
    IF e >= 100 THEN FMul(x, FPow(x, e - 100))
    ELSE FracPow(x, e, PowBits)

\* Lines 33-46.
Coefficients(units) ==
    IF units = "US Customary"
    THEN [Ku_splash |-> 900, Ku_side |-> 1500, Ku_gutter |-> 5600, Ku_velocity |-> 11100]
    ELSE [Ku_splash |-> 2950, Ku_side |-> 828, Ku_gutter |-> 3760, Ku_velocity |-> 7520]

\* Lines 73-81, in ft/s.
splash_over_velocities ==
    [P_1_7_8 |-> [short |-> 82000, long |-> 120000],
     P_1_7_8_4 |-> [short |-> 80000, long |-> 119000],
     P_1_1_8 |-> [short |-> 65000, long |-> 98000],
     Curved_Vane |-> [short |-> 74000, long |-> 109000],
     Tilt_Bar_45 |-> [short |-> 64000, long |-> 94000],
     Tilt_Bar_30 |-> [short |-> 58000, long |-> 86000],
     Reticuline |-> [short |-> 63000, long |-> 92000]]

\* Line 55: (Ku_gutter/n) * Sx**(1.67) * SL**(0.5) * T**(2.67).
GutterFlow(ku, rough, cross, long, spread) ==
    FMul(FMul(FMul(FDiv(ku.Ku_gutter, rough), FPow(spread, 267)), FPow(cross, 167)), FPow(long, 50))

\* Line 58: (Ku_velocity/n) * SL**(0.5) * Sx**(0.67) * T**(0.67).
Velocity(ku, rough, cross, long, spread) ==
    FMul(FMul(FMul(FDiv(ku.Ku_velocity, rough), FPow(long, 50)), FPow(cross, 67)), FPow(spread, 67))

\* Lines 91-97: the table's entry for the grate and its length category, in
\* m/s under SI units.
SplashOverVelocity(units, type, length) ==
    LET length_category == IF length <= 3 * Scale THEN "short" ELSE "long"
        table == splash_over_velocities[type][length_category]
    IN  IF units = "SI (metric)" THEN FMul(table, 3048) ELSE table

\* Line 133: 1 - (1 - min(grate_width/T, 1.0))**2.67.
FrontalFlowRatio(width, spread) ==
    LET ratio == IF FDiv(width, spread) < Scale THEN FDiv(width, spread) ELSE Scale
    IN  Scale - FPow(Scale - ratio, 267)

\* Mutant: line 139 is dropped, Rf is not limited to 0 .. 1.
FrontalEfficiency_unlimited(ku, velocity, splash) ==
    IF velocity < splash THEN Scale
    ELSE Scale - FMul(velocity - splash, ku.Ku_splash)

\* Lines 136-139.
FrontalEfficiency(ku, velocity, splash) ==
    IF velocity < splash THEN Scale
    ELSE LET raw == Scale - FMul(velocity - splash, ku.Ku_splash)
             capped == IF raw < Scale THEN raw ELSE Scale
         IN  IF capped > 0 THEN capped ELSE 0

\* Line 143: 1 / (1 + (Ku_side * V**1.8) / (Sx * grate_length**2.3)).
SideEfficiency(ku, velocity, cross, length) ==
    FDiv(Scale, Scale + FDiv(FMul(FPow(velocity, 180), ku.Ku_side), FMul(FPow(length, 230), cross)))

\* Line 146.
TotalEfficiency(frontal, ratio, side) == FMul(frontal, ratio) + FMul(side, Scale - ratio)

\* Lines 149-159: Qi, Qb and their values under the clogging factor.
Interception(flow, efficiency, clogging) ==
    LET intercepted == FMul(flow, efficiency)
        bypass == flow - intercepted
    IN  IF clogging > 0
        THEN [Qi |-> intercepted, Qb |-> bypass,
              Qi_clogged |-> FMul(intercepted, Scale - clogging),
              Qb_clogged |-> flow - FMul(intercepted, Scale - clogging)]
        ELSE [Qi |-> intercepted, Qb |-> bypass,
              Qi_clogged |-> intercepted, Qb_clogged |-> bypass]

\* Lines 32-127: the widgets' values, at the ends of their ranges, at their
\* defaults and on either side of the length category's limit; of the grates
\* the first, the last and the one with the lowest splash-over velocity.
InitGrade ==
    /\ unit_system \in {"US Customary", "SI (metric)"}
    /\ n_grade \in {100, 160, 500}
    /\ Sx_grade \in {100, 250, 1000}
    /\ SL \in {10, 300, 1000}
    /\ T_grade \in {10000, 80000, 200000}
    /\ grate_type \in {"P_1_7_8", "Tilt_Bar_30", "Reticuline"}
    /\ grate_width \in {10000, 20000, 50000}
    /\ grate_length \in {10000, 30000, 31000, 100000}
    /\ clogging_factor \in {0, 500, 5000}
    /\ Q_grade = 0
    /\ V = 0
    /\ Vo = 0
    /\ Eo = 0
    /\ Rf = 0
    /\ Rs_grade = 0
    /\ E_grade = 0
    /\ Qi = 0
    /\ Qb = 0
    /\ Qi_clogged = 0
    /\ Qb_clogged = 0
    /\ grade_pc = "gutter"
    /\ WildfireIdle
    /\ GutterIdle
    /\ InletIdle

\* Lines 55-97: the gutter's flow and velocity and the grate's splash-over
\* velocity.
GradeGutter ==
    /\ grade_pc = "gutter"
    /\ Q_grade' = GutterFlow(Coefficients(unit_system), n_grade, Sx_grade, SL, T_grade)
    /\ V' = Velocity(Coefficients(unit_system), n_grade, Sx_grade, SL, T_grade)
    /\ Vo' = SplashOverVelocity(unit_system, grate_type, grate_length)
    /\ grade_pc' = "efficiency"
    /\ UNCHANGED <<grade_inputs, Eo, Rf, Rs_grade, E_grade, Qi, Qb, Qi_clogged, Qb_clogged>>
    /\ UNCHANGED <<wildfire_vars, gutter_vars, inlet_vars>>

\* Lines 133-146.
GradeEfficiency ==
    /\ grade_pc = "efficiency"
    /\ Eo' = FrontalFlowRatio(grate_width, T_grade)
    /\ Rf' = FrontalEfficiency(Coefficients(unit_system), V, Vo)
    /\ Rs_grade' = SideEfficiency(Coefficients(unit_system), V, Sx_grade, grate_length)
    /\ E_grade' = TotalEfficiency(Rf', Eo', Rs_grade')
    /\ grade_pc' = "capacity"
    /\ UNCHANGED <<grade_inputs, Q_grade, V, Vo, Qi, Qb, Qi_clogged, Qb_clogged>>
    /\ UNCHANGED <<wildfire_vars, gutter_vars, inlet_vars>>

\* Lines 149-159.
GradeCapacity ==
    /\ grade_pc = "capacity"
    /\ LET flows == Interception(Q_grade, E_grade, clogging_factor)
       IN  /\ Qi' = flows.Qi
           /\ Qb' = flows.Qb
           /\ Qi_clogged' = flows.Qi_clogged
           /\ Qb_clogged' = flows.Qb_clogged
    /\ grade_pc' = "done"
    /\ UNCHANGED <<grade_inputs, Q_grade, V, Vo, Eo, Rf, Rs_grade, E_grade>>
    /\ UNCHANGED <<wildfire_vars, gutter_vars, inlet_vars>>

NextGrade ==
    \/ GradeGutter
    \/ GradeEfficiency
    \/ GradeCapacity

\* The on-grade tab under its widgets.
SpecGrade == InitGrade /\ [][NextGrade]_vars

\* ----------------------------------------------- the on-grade claims

\* C23: for a grate inlet on grade, on every input of the form the frontal
\* flow ratio Eo, the frontal efficiency Rf and the side efficiency Rs lie
\* in [0, 1] and so does the total efficiency E; the intercepted and the
\* bypass flow add up to the gutter's flow, with and without the clogging
\* factor, and the bypass flow is never negative.
C23_EfficienciesAndFlowBalance ==
    /\ grade_pc \in {"capacity", "done"} =>
        /\ Eo \in 0 .. Scale
        /\ Rf \in 0 .. Scale
        /\ Rs_grade \in 0 .. Scale
        /\ E_grade \in 0 .. Scale
    /\ grade_pc = "done" =>
        /\ Qi + Qb = Q_grade
        /\ Qi_clogged + Qb_clogged = Q_grade
        /\ Qb >= 0
        /\ Qb_clogged >= 0
        /\ Qi >= 0
        /\ Qi_clogged >= 0

\* The flow is faster than the splash-over velocity by so much that line 139
\* limits Rf to 0, the grate is narrower than the spread, the side flow is
\* partly intercepted, and the clogging factor moves flow from the
\* intercepted to the bypass.
C23_Witness ==
    /\ grade_pc = "done"
    /\ V >= Vo
    /\ Scale - FMul(V - Vo, Coefficients(unit_system).Ku_splash) < 0
    /\ Rf = 0
    /\ Eo \in 1 .. (Scale - 1)
    /\ Rs_grade \in 1 .. (Scale - 1)
    /\ E_grade > 0
    /\ clogging_factor > 0
    /\ Qi_clogged > 0
    /\ Qi_clogged < Qi
    /\ Qb_clogged > Qb

====
